---- MODULE Spec2Model ----
(***************************************************************************)
(* Model of geosolver/text/semantic_model_2.py: the log-linear semantic    *)
(* model (SemanticModel, UnarySemanticModel, BinarySemanticModel).         *)
(*                                                                         *)
(* Python values are represented as follows.                               *)
(*   - a word index is an integer, the Python value None is the constant   *)
(*     None, which lies outside every index range the model can build;     *)
(*   - a FunctionSignature is its name (a string), a missing tag is NoTag;  *)
(*   - words.keys() is WordIdx, tags is a function on WordIdx;              *)
(*   - a Python list is a sequence, a set is a set, a dict is a function.   *)
(* The words and the syntax tree are carried unchanged through every rule  *)
(* and take no part in any decision of this file, so they are not fields.  *)
(***************************************************************************)
EXTENDS Integers, Sequences, FiniteSets

\* ------------------------------------------------------------------ bounds
NumWords == 3
MaxRadius == 1
MaxBatch == 2

\* --------------------------------------------------------- Python's None
None == -100
NoTag == "None"

WordIdx == 0 .. (NumWords - 1)

\* ------------------------------------------- ontology (external module)
\* function_signatures.values(): the registry of the ontology.
function_signatures == {"LengthOf", "Equals", "AB", "five"}

\* Every FunctionSignature that can reach the model: the registry and the
\* variable signature "x", which is built on the fly and is not registered.
Signatures == function_signatures \cup {"x"}

arg_types(signature) ==
    CASE signature = "LengthOf" -> <<"line">>
      [] signature = "Equals"   -> <<"number", "number">>
      [] OTHER                  -> <<>>

return_type(signature) ==
    CASE signature = "LengthOf" -> "number"
      [] signature = "Equals"   -> "truth"
      [] signature = "AB"       -> "segment"
      [] signature = "five"     -> "number"
      [] OTHER                  -> "number"

is_unary(signature) == Len(arg_types(signature)) = 1

is_binary(signature) == Len(arg_types(signature)) = 2

\* The subtype relation: reflexive, and a segment is a line.
issubtype(sub, sup) == sub = sup \/ (sub = "segment" /\ sup = "line")

\* ------------------------------------------------ rule value types
TagRule(index, signature) == [index |-> index, signature |-> signature]

UnaryRule(tags, parent_index, parent_signature, child_index, child_signature) ==
    [type |-> "unary", tags |-> tags,
     parent_index |-> parent_index, parent_signature |-> parent_signature,
     child_index |-> child_index, child_signature |-> child_signature]

BinaryRule(tags, parent_index, parent_signature, a_index, a_signature, b_index, b_signature) ==
    [type |-> "binary", tags |-> tags,
     parent_index |-> parent_index, parent_signature |-> parent_signature,
     a_index |-> a_index, a_signature |-> a_signature,
     b_index |-> b_index, b_signature |-> b_signature]

\* The tag rules of the slots of a semantic rule: parent and children.
semantic_rule_to_tag_rules(rule) ==
    IF rule.type = "unary"
    THEN {TagRule(rule.parent_index, rule.parent_signature),
          TagRule(rule.child_index, rule.child_signature)}
    ELSE {TagRule(rule.parent_index, rule.parent_signature),
          TagRule(rule.a_index, rule.a_signature),
          TagRule(rule.b_index, rule.b_signature)}

\* ------------------------------------------------ candidate generator
\* Lines 113-117: the exclusion set the filter uses.
ExcludingIndicesNoParent(parent_index, excluding_indices) ==
    IF parent_index = None THEN {None} ELSE excluding_indices

ExcludingIndices(parent_index, excluding_indices) ==
    IF parent_index = None
    THEN {parent_index}
    ELSE excluding_indices \cup {parent_index}

\* Lines 113-117 rebind the local name to a fresh set: the set object the
\* caller passed (or the shared default) holds the same elements afterwards.
CallerSetAfterCallAliased(parent_index, excluding_indices) ==
    excluding_indices \cup {parent_index}

CallerSetAfterCall(parent_index, excluding_indices) == excluding_indices

\* Lines 119-120.
explicit_tag_rules(tags) ==
    {TagRule(index, tags[index]) : index \in {i \in WordIdx : tags[i] # NoTag}}

\* Lines 121-122.
implicit_tag_rules == {TagRule(None, signature) : signature \in function_signatures}

\* Line 123.
indexed_tag_rules(tags, lifted_tag_rules) ==
    explicit_tag_rules(tags) \cup lifted_tag_rules

\* Lines 125-129.
local_indices_wide(tags, parent_index, localities) ==
    IF parent_index # None /\ tags[parent_index] \in DOMAIN localities
    THEN (parent_index - localities[tags[parent_index]] - 1)
            .. (parent_index + localities[tags[parent_index]] + 1)
    ELSE WordIdx

local_indices(tags, parent_index, localities) ==
    IF parent_index # None /\ tags[parent_index] \in DOMAIN localities
    THEN (parent_index - localities[tags[parent_index]])
            .. (parent_index + localities[tags[parent_index]])
    ELSE WordIdx

\* Lines 132-133.
filtered_indexed_tag_rules(tags, parent_index, excluding_indices, lifted_tag_rules, localities) ==
    {tag_rule \in indexed_tag_rules(tags, lifted_tag_rules) :
        /\ tag_rule.index \notin ExcludingIndices(parent_index, excluding_indices)
        /\ tag_rule.index \in local_indices(tags, parent_index, localities)}

\* Lines 134-135.
filtered_implicit_tag_rules_unfiltered(impliable_signatures) == implicit_tag_rules

filtered_implicit_tag_rules(impliable_signatures) ==
    {tag_rule \in implicit_tag_rules : tag_rule.signature \in impliable_signatures}

\* Line 137.
get_next_tag_rules(tags, parent_index, excluding_indices, lifted_tag_rules, impliable_signatures, localities) ==
    filtered_indexed_tag_rules(tags, parent_index, excluding_indices,
                               lifted_tag_rules, localities)
        \cup filtered_implicit_tag_rules(impliable_signatures)


\* ------------------------------------------------ arity expanders
\* Python iterates a set in an order the language does not specify; the
\* model iterates in the order of (index, signature).  No property below
\* depends on the order.
SigOrder == <<"LengthOf", "Equals", "AB", "five", "x">>

SigRank(signature) == CHOOSE k \in 1 .. Len(SigOrder) : SigOrder[k] = signature

TagRuleBefore(s, t) ==
    \/ s.index < t.index
    \/ s.index = t.index /\ SigRank(s.signature) <= SigRank(t.signature)

RECURSIVE IterationOrder(_)
IterationOrder(S) ==
    IF S = {} THEN <<>>
    ELSE LET first == CHOOSE s \in S : \A t \in S : TagRuleBefore(s, t)
         IN <<first>> \o IterationOrder(S \ {first})

\* itertools.product(next_tag_rules, repeat=2): the pairs in lexicographic order.
Product2(list) ==
    [k \in 1 .. (Len(list) * Len(list)) |->
        <<list[((k - 1) \div Len(list)) + 1], list[((k - 1) % Len(list)) + 1]>>]

\* Lines 150-156: the loop of UnarySemanticModel.get_possible_rules.
unary_admissible(tag_rule, parent_signature) ==
    issubtype(return_type(tag_rule.signature), arg_types(parent_signature)[1])

unary_rules(tags, parent_index, parent_signature, next_tag_rules) ==
    LET kept == SelectSeq(IterationOrder(next_tag_rules),
                          LAMBDA tag_rule : unary_admissible(tag_rule, parent_signature))
    IN [k \in 1 .. Len(kept) |->
           UnaryRule(tags, parent_index, parent_signature,
                     kept[k].index, kept[k].signature)]

\* Lines 168-176: the loop of BinarySemanticModel.get_possible_rules.
binary_admissible_first_only(a_tag, b_tag, parent_signature) ==
    issubtype(return_type(a_tag.signature), arg_types(parent_signature)[1])

binary_admissible(a_tag, b_tag, parent_signature) ==
    /\ issubtype(return_type(a_tag.signature), arg_types(parent_signature)[1])
    /\ issubtype(return_type(b_tag.signature), arg_types(parent_signature)[2])

binary_rules(tags, parent_index, parent_signature, next_tag_rules) ==
    LET kept == SelectSeq(Product2(IterationOrder(next_tag_rules)),
                          LAMBDA pair : binary_admissible(pair[1], pair[2], parent_signature))
    IN [k \in 1 .. Len(kept) |->
           BinaryRule(tags, parent_index, parent_signature,
                      kept[k][1].index, kept[k][1].signature,
                      kept[k][2].index, kept[k][2].signature)]

\* The outcome of a call: a value, or the exception that ended it.
Returned(value) == [error |-> "none", value |-> value]

Raised(error) == [error |-> error, value |-> <<>>]

\* get_possible_rules of the three classes; kind is the class of self.
get_possible_rules(kind, tags, parent_index, parent_signature, excluding_indices, lifted_tag_rules, impliable_signatures, localities) ==
    LET next_tag_rules ==
            get_next_tag_rules(tags, parent_index, excluding_indices, lifted_tag_rules,
                               impliable_signatures, localities)
    IN CASE kind = "base" -> Returned(<<>>)
         [] kind = "unary" ->
                IF ~is_unary(parent_signature) THEN Raised("AssertionError")
                ELSE Returned(unary_rules(tags, parent_index, parent_signature, next_tag_rules))
         [] kind = "binary" ->
                IF ~is_binary(parent_signature) THEN Raised("AssertionError")
                ELSE Returned(binary_rules(tags, parent_index, parent_signature, next_tag_rules))

\* ------------------------------------------------ log-linear scorer
Range(f) == {f[k] : k \in DOMAIN f}

\* FeatureFunction.evaluate (external): a vector of dimension 2, the number
\* of anchored child slots and whether the parent is anchored.
Anchored(index) == IF index = None THEN 0 ELSE 1

evaluate(rule) ==
    IF rule.type = "unary"
    THEN <<Anchored(rule.child_index), Anchored(rule.parent_index)>>
    ELSE <<Anchored(rule.a_index) + Anchored(rule.b_index), Anchored(rule.parent_index)>>

\* np.dot on vectors of dimension 2.
dot(u, v) == u[1] * v[1] + u[2] * v[2]

\* dist_utils.log_normalize (external): subtract the log-sum-exp.  Scores
\* are whole numbers; exp and log are evaluated in thousandths and the
\* correction is rounded to the nearest whole number, as floating point
\* rounds it to the nearest representable one.
SetMax(S) == CHOOSE x \in S : \A y \in S : y <= x

ExpNegMilli(d) ==
    CASE d = 0 -> 1000 [] d = 1 -> 368 [] d = 2 -> 135 [] d = 3 -> 50
      [] d = 4 -> 18 [] d = 5 -> 7 [] d = 6 -> 2 [] d = 7 -> 1 [] OTHER -> 0

LogMilliRounded(m) ==
    IF m < 1649 THEN 0 ELSE IF m < 4482 THEN 1 ELSE IF m < 12183 THEN 2 ELSE 3

RECURSIVE SumExpMilli(_, _, _)
SumExpMilli(dist, keys, top) ==
    IF keys = {} THEN 0
    ELSE LET k == CHOOSE k \in keys : TRUE
         IN ExpNegMilli(top - dist[k]) + SumExpMilli(dist, keys \ {k}, top)

logsumexp(dist) ==
    LET top == SetMax(Range(dist))
    IN top + LogMilliRounded(SumExpMilli(dist, DOMAIN dist, top))

log_normalize(dist) == [k \in DOMAIN dist |-> dist[k] - logsumexp(dist)]

\* Lines 80-94.
get_log_distribution(kind, weights, tags, parent_index, parent_signature, excluding_indices, lifted_tag_rules, impliable_signatures, localities) ==
    LET local_rules == get_possible_rules(kind, tags, parent_index, parent_signature,
                                          excluding_indices, lifted_tag_rules,
                                          impliable_signatures, localities)
        distribution == [rule \in Range(local_rules.value) |-> dot(weights, evaluate(rule))]
    IN IF local_rules.error # "none" THEN local_rules
       ELSE IF Cardinality(DOMAIN distribution) = 0 THEN Returned(<<>>)
       ELSE Returned(log_normalize(distribution))

\* Line 102.
Sentinel == -9999

\* Lines 96-104.
get_log_prob(kind, weights, rule, excluding_indices, lifted_tag_rules, impliable_signatures, localities) ==
    LET distribution == get_log_distribution(kind, weights, rule.tags, rule.parent_index,
                                             rule.parent_signature, excluding_indices,
                                             lifted_tag_rules, impliable_signatures, localities)
    IN IF distribution.error # "none" THEN distribution
       ELSE IF rule \notin DOMAIN distribution.value THEN Returned(Sentinel)
       ELSE Returned(distribution.value[rule])


\* ------------------------------------------------ trainer
\* Lines 66-78: the contribution of one rule of the batch.
add_rule_signatures_any_index(impliable_signatures, rule) ==
    IF rule.type = "unary"
    THEN impliable_signatures \cup {rule.parent_signature, rule.child_signature}
    ELSE impliable_signatures \cup {rule.parent_signature, rule.a_signature, rule.b_signature}

add_rule_signatures(impliable_signatures, rule) ==
    IF rule.type = "unary"
    THEN impliable_signatures
            \cup (IF rule.parent_index = None THEN {rule.parent_signature} ELSE {})
            \cup (IF rule.child_index = None THEN {rule.child_signature} ELSE {})
    ELSE IF rule.type = "binary"
    THEN impliable_signatures
            \cup (IF rule.parent_index = None THEN {rule.parent_signature} ELSE {})
            \cup (IF rule.a_index = None THEN {rule.a_signature} ELSE {})
            \cup (IF rule.b_index = None THEN {rule.b_signature} ELSE {})
    ELSE impliable_signatures

\* Lines 65-78: _add_impliable_signatures, the loop over the batch.
add_impliable_signatures_first_only(impliable_signatures, rules) ==
    IF rules = <<>> THEN impliable_signatures
    ELSE add_rule_signatures(impliable_signatures, Head(rules))

RECURSIVE add_impliable_signatures(_, _)
add_impliable_signatures(impliable_signatures, rules) ==
    IF rules = <<>> THEN impliable_signatures
    ELSE add_impliable_signatures(add_rule_signatures(impliable_signatures, Head(rules)),
                                  Tail(rules))

\* list.index: the 0-based position of the first equal element, or ValueError.
ListIndexOrZero(list, x) ==
    IF \E k \in 1 .. Len(list) : list[k] = x
    THEN Returned((CHOOSE k \in 1 .. Len(list) :
                      list[k] = x /\ \A j \in 1 .. (k - 1) : list[j] # x) - 1)
    ELSE Returned(0)

ListIndex(list, x) ==
    IF \E k \in 1 .. Len(list) : list[k] = x
    THEN Returned((CHOOSE k \in 1 .. Len(list) :
                      list[k] = x /\ \A j \in 1 .. (k - 1) : list[j] # x) - 1)
    ELSE Raised("ValueError")

\* ------------------------------------------------ inputs
\* The tags of a sentence: one tag per word, NoTag where the word has none.
TagsOf(sentence) ==
    [i \in WordIdx |-> IF i + 1 <= Len(sentence) THEN sentence[i + 1] ELSE NoTag]

Tags1 == TagsOf(<<"LengthOf", "AB", NoTag>>)

Tags2 == TagsOf(<<"five", "Equals", "LengthOf">>)

TagsArgs == {Tags1, Tags2}

ParentIndexArgs == {None} \cup WordIdx

ParentSignatureArgs == {"LengthOf", "Equals"}

\* The sets a caller passes explicitly; an omitted argument is the shared
\* default object, which starts empty.
ExcludingArgs == {{0}, {1, 2}}

LiftedArgs == {{TagRule(None, "x")}, {TagRule(NumWords, "AB")},
               {TagRule(1, "five"), TagRule(None, "five")}}

\* The observed rules a batch or a get_log_prob query is drawn from.
RuleArgs ==
    {UnaryRule(Tags1, 0, "LengthOf", 1, "AB"),
     UnaryRule(Tags1, 0, "LengthOf", None, "AB"),
     UnaryRule(Tags1, 1, "LengthOf", 1, "AB"),
     BinaryRule(Tags2, 1, "Equals", 0, "five", 2, "LengthOf"),
     BinaryRule(Tags2, 1, "Equals", None, "five", None, "x"),
     BinaryRule(Tags2, None, "Equals", 0, "five", None, "five")}

BatchArgs == UNION {[1 .. n -> RuleArgs] : n \in 1 .. MaxBatch}

Kinds == {"base", "unary", "binary"}

WeightVectors == {<<0, 0>>, <<9999, 0>>}

LocalityArgs ==
    {<<>>} \cup {[tag \in {"LengthOf"} |-> r] : r \in 0 .. MaxRadius}

\* ------------------------------------------------ state
VARIABLES
    kind,                       \* the class of the model object
    weights,                    \* self.weights
    impliable_signatures,       \* self.impliable_signatures
    localities,                 \* self.localities
    default_excluding_indices,  \* the shared default object excluding_indices=set()
    default_lifted_tag_rules,   \* the shared default object lifted_tag_rules=set()
    pc,                         \* where the caller is: idle, answered, or a line of fit
    call,                       \* the inference query that was just answered
    fit                         \* the locals of the fit call in progress

vars == <<kind, weights, impliable_signatures, localities, default_excluding_indices,
          default_lifted_tag_rules, pc, call, fit>>

NoRule == <<>>

NoCall == [op |-> "none"]

NoFit == [rules |-> <<>>]

\* Lines 15-22.  The class is chosen by the caller, the weights are the
\* caller's or zeros, and the locality map has been filled by the
\* configuration code outside this file before the model is used.
Init ==
    /\ kind \in Kinds
    /\ weights \in WeightVectors
    /\ impliable_signatures = {}
    /\ localities \in LocalityArgs
    /\ default_excluding_indices = {}
    /\ default_lifted_tag_rules = {}
    /\ pc = "idle"
    /\ call = NoCall
    /\ fit = NoFit

\* An inference query: the arguments as the callee receives them, the
\* outcome, and the contents of the two argument objects after the call.
Answer(op, rule, tags, parent_index, parent_signature, default_excl, excl, default_lifted, lifted, outcome) ==
    LET passed_excl == IF default_excl THEN default_excluding_indices ELSE excl
        passed_lifted == IF default_lifted THEN default_lifted_tag_rules ELSE lifted
        excl_after == IF kind = "base" /\ op # "get_next_tag_rules"
                      THEN passed_excl
                      ELSE CallerSetAfterCall(parent_index, passed_excl)
    IN /\ pc = "idle"
       /\ pc' = "answered"
       /\ call' = [op |-> op, rule |-> rule, tags |-> tags,
                   parent_index |-> parent_index, parent_signature |-> parent_signature,
                   excluding_indices |-> passed_excl, lifted_tag_rules |-> passed_lifted,
                   outcome |-> outcome,
                   excluding_after |-> excl_after, lifted_after |-> passed_lifted]
       /\ default_excluding_indices' =
              IF default_excl THEN excl_after ELSE default_excluding_indices
       /\ UNCHANGED <<kind, weights, impliable_signatures, localities,
                      default_lifted_tag_rules, fit>>

\* The explicit values a call can pass; one placeholder when the argument is omitted.
ExcludingChoices(default_excl) == IF default_excl THEN {{}} ELSE ExcludingArgs

LiftedChoices(default_lifted) == IF default_lifted THEN {{}} ELSE LiftedArgs

PassedExcl(default_excl, excl) == IF default_excl THEN default_excluding_indices ELSE excl

PassedLifted(default_lifted, lifted) == IF default_lifted THEN default_lifted_tag_rules ELSE lifted

\* Lines 111-137.
GetNextTagRules ==
    \E tags \in TagsArgs, parent_index \in ParentIndexArgs,
       parent_signature \in ParentSignatureArgs,
       default_excl \in BOOLEAN, default_lifted \in BOOLEAN :
      \E excl \in ExcludingChoices(default_excl), lifted \in LiftedChoices(default_lifted) :
        Answer("get_next_tag_rules", NoRule, tags, parent_index, parent_signature,
                  default_excl, excl, default_lifted, lifted,
                  Returned(get_next_tag_rules(tags, parent_index,
                                              PassedExcl(default_excl, excl),
                                              PassedLifted(default_lifted, lifted),
                                              impliable_signatures, localities)))

\* Lines 106-108, 141-156, 160-176.
GetPossibleRules ==
    \E tags \in TagsArgs, parent_index \in ParentIndexArgs,
       parent_signature \in ParentSignatureArgs,
       default_excl \in BOOLEAN, default_lifted \in BOOLEAN :
      \E excl \in ExcludingChoices(default_excl), lifted \in LiftedChoices(default_lifted) :
        Answer("get_possible_rules", NoRule, tags, parent_index, parent_signature,
                  default_excl, excl, default_lifted, lifted,
                  get_possible_rules(kind, tags, parent_index, parent_signature,
                                     PassedExcl(default_excl, excl),
                                     PassedLifted(default_lifted, lifted),
                                     impliable_signatures, localities))

\* Lines 80-94.
GetLogDistribution ==
    \E tags \in TagsArgs, parent_index \in ParentIndexArgs,
       parent_signature \in ParentSignatureArgs,
       default_excl \in BOOLEAN, default_lifted \in BOOLEAN :
      \E excl \in ExcludingChoices(default_excl), lifted \in LiftedChoices(default_lifted) :
        Answer("get_log_distribution", NoRule, tags, parent_index, parent_signature,
                  default_excl, excl, default_lifted, lifted,
                  get_log_distribution(kind, weights, tags, parent_index, parent_signature,
                                       PassedExcl(default_excl, excl),
                                       PassedLifted(default_lifted, lifted),
                                       impliable_signatures, localities))

\* Lines 96-104.
GetLogProb ==
    \E rule \in RuleArgs,
       default_excl \in BOOLEAN, default_lifted \in BOOLEAN :
      \E excl \in ExcludingChoices(default_excl), lifted \in LiftedChoices(default_lifted) :
        Answer("get_log_prob", rule, rule.tags, rule.parent_index, rule.parent_signature,
                  default_excl, excl, default_lifted, lifted,
                  get_log_prob(kind, weights, rule,
                               PassedExcl(default_excl, excl),
                               PassedLifted(default_lifted, lifted),
                               impliable_signatures, localities))

\* The caller takes the answer (or the exception) of the query.
Return ==
    /\ pc = "answered"
    /\ pc' = "idle"
    /\ call' = NoCall
    /\ UNCHANGED <<kind, weights, impliable_signatures, localities,
                   default_excluding_indices, default_lifted_tag_rules, fit>>

\* Lines 24-25: fit is entered and updates the impliable signatures.
FitAddImpliable ==
    \E rules \in BatchArgs :
        /\ pc = "idle"
        /\ pc' = "fit_denom"
        /\ impliable_signatures' = add_impliable_signatures(impliable_signatures, rules)
        /\ fit' = [rules |-> rules, weights_before |-> weights,
                   impliable_before |-> impliable_signatures,
                   denom_rules_list |-> <<>>, num_index_list |-> <<>>,
                   error |-> "none", minimized |-> FALSE]
        /\ UNCHANGED <<kind, weights, localities, default_excluding_indices,
                       default_lifted_tag_rules, call>>

\* Lines 27-31: one candidate list per rule of the batch, with the default
\* exclusion set and the rule's own tag rules as lifted hints.
DenomRules(rule) ==
    get_possible_rules(kind, rule.tags, rule.parent_index, rule.parent_signature,
                       default_excluding_indices, semantic_rule_to_tag_rules(rule),
                       impliable_signatures, localities)

FitDenomRules ==
    LET outcomes == [i \in 1 .. Len(fit.rules) |-> DenomRules(fit.rules[i])]
        failed == \E i \in 1 .. Len(outcomes) : outcomes[i].error # "none"
    IN /\ pc = "fit_denom"
       /\ IF failed
          THEN /\ pc' = "fit_raised"
               /\ fit' = [fit EXCEPT !.error = "AssertionError"]
          ELSE /\ pc' = "fit_index"
               /\ fit' = [fit EXCEPT !.denom_rules_list =
                             [i \in 1 .. Len(outcomes) |-> outcomes[i].value]]
       /\ UNCHANGED <<kind, weights, impliable_signatures, localities,
                      default_excluding_indices, default_lifted_tag_rules, call>>

\* Line 32: the position of every observed rule in its candidate list.
FitNumIndex ==
    LET outcomes == [i \in 1 .. Len(fit.rules) |->
                        ListIndex(fit.denom_rules_list[i], fit.rules[i])]
        failed == \E i \in 1 .. Len(outcomes) : outcomes[i].error # "none"
    IN /\ pc = "fit_index"
       /\ IF failed
          THEN /\ pc' = "fit_raised"
               /\ fit' = [fit EXCEPT !.error = "ValueError"]
          ELSE /\ pc' = "fit_minimize"
               /\ fit' = [fit EXCEPT !.num_index_list =
                             [i \in 1 .. Len(outcomes) |-> outcomes[i].value]]
       /\ UNCHANGED <<kind, weights, impliable_signatures, localities,
                      default_excluding_indices, default_lifted_tag_rules, call>>

\* Lines 35-62: the optimizer runs from the current weights and its result,
\* any vector, replaces them; fit returns.
FitMinimize ==
    \E x \in WeightVectors :
        /\ pc = "fit_minimize"
        /\ pc' = "fit_returned"
        /\ weights' = x
        /\ fit' = [fit EXCEPT !.minimized = TRUE]
        /\ UNCHANGED <<kind, impliable_signatures, localities,
                       default_excluding_indices, default_lifted_tag_rules, call>>

\* The exception of line 27 or 32 reaches the caller of fit, or fit returned.
FitReturn ==
    /\ pc \in {"fit_raised", "fit_returned"}
    /\ pc' = "idle"
    /\ fit' = NoFit
    /\ UNCHANGED <<kind, weights, impliable_signatures, localities,
                   default_excluding_indices, default_lifted_tag_rules, call>>

Next ==
    \/ GetNextTagRules
    \/ GetPossibleRules
    \/ GetLogDistribution
    \/ GetLogProb
    \/ Return
    \/ FitAddImpliable
    \/ FitDenomRules
    \/ FitNumIndex
    \/ FitMinimize
    \/ FitReturn

Spec == Init /\ [][Next]_vars


\* ------------------------------------------------ properties
Answered(op) == pc = "answered" /\ call.op = op

\* The candidate set of the answered query, as the generator builds it.
CandidatesOfCall ==
    get_next_tag_rules(call.tags, call.parent_index, call.excluding_indices,
                       call.lifted_tag_rules, impliable_signatures, localities)

\* C1 as stated: whatever the parent index is, None included, no tag rule
\* returned by get_next_tag_rules has the parent index as its index.
C1_NoCandidateAtParentIndexOrNone ==
    Answered("get_next_tag_rules") =>
        \A tag_rule \in call.outcome.value : tag_rule.index # call.parent_index

\* C1 amended: when the parent index is an integer, no tag rule returned by
\* get_next_tag_rules has the parent index as its index.
C1_NoCandidateAtParentIndex ==
    Answered("get_next_tag_rules") /\ call.parent_index # None =>
        \A tag_rule \in call.outcome.value : tag_rule.index # call.parent_index

\* The parent word carries a tag, so it was in the pool, and others were returned.
C1_Witness ==
    /\ Answered("get_next_tag_rules")
    /\ call.parent_index # None
    /\ call.tags[call.parent_index] # NoTag
    /\ call.parent_index \notin call.excluding_indices
    /\ call.outcome.value # {}

\* C2: no tag rule returned by get_next_tag_rules has an index in the
\* exclusion set the caller supplied, whatever the parent index is.
C2_CallerExclusionsHonoured ==
    Answered("get_next_tag_rules") =>
        \A tag_rule \in call.outcome.value : tag_rule.index \notin call.excluding_indices

\* C3: with a locality radius r configured for the tag at the parent index p,
\* every returned tag rule with an index has it in [p-r, p+r]; without one
\* (or without a parent index) every such index is a word index.
C3_LocalityWindow ==
    Answered("get_next_tag_rules") =>
        \A tag_rule \in call.outcome.value :
            tag_rule.index # None =>
                IF call.parent_index # None
                      /\ call.tags[call.parent_index] \in DOMAIN localities
                THEN /\ call.parent_index - localities[call.tags[call.parent_index]]
                            <= tag_rule.index
                     /\ tag_rule.index
                            <= call.parent_index + localities[call.tags[call.parent_index]]
                ELSE tag_rule.index \in WordIdx

\* A radius is configured for the parent's tag, the window dropped a tagged
\* word, and an indexed candidate inside the window was returned.
C3_Witness ==
    /\ Answered("get_next_tag_rules")
    /\ call.parent_index # None
    /\ call.tags[call.parent_index] \in DOMAIN localities
    /\ \E tag_rule \in call.outcome.value : tag_rule.index # None
    /\ \E index \in WordIdx :
          /\ call.tags[index] # NoTag
          /\ index \notin call.excluding_indices \cup {call.parent_index}
          /\ TagRule(index, call.tags[index]) \notin call.outcome.value

\* C4 as stated: every tag rule returned by get_next_tag_rules is a tagged
\* word or one of the caller's lifted hints.
C4_CandidatesFromExplicitOrLifted ==
    Answered("get_next_tag_rules") =>
        call.outcome.value \subseteq
            {TagRule(index, call.tags[index]) : index \in {i \in WordIdx : call.tags[i] # NoTag}}
                \cup call.lifted_tag_rules

\* C4 amended: every returned tag rule is a tagged word, a lifted hint or an
\* unanchored rule of a registry signature; an unanchored rule is returned
\* exactly when its signature is a registry signature in the impliable set,
\* whether the caller supplied it as a lifted hint or not.
C4_CandidatesFromPoolOrRegistry ==
    Answered("get_next_tag_rules") =>
        /\ call.outcome.value \subseteq
              {TagRule(index, call.tags[index]) :
                  index \in {i \in WordIdx : call.tags[i] # NoTag}}
                \cup call.lifted_tag_rules
                \cup {TagRule(None, signature) : signature \in function_signatures}
        /\ \A signature \in Signatures :
              TagRule(None, signature) \in call.outcome.value
                  <=> signature \in function_signatures \cap impliable_signatures

\* An unanchored candidate that is no lifted hint is returned, and an
\* unanchored lifted hint is not.
C4_Witness ==
    /\ Answered("get_next_tag_rules")
    /\ \E tag_rule \in call.outcome.value :
          tag_rule.index = None /\ tag_rule \notin call.lifted_tag_rules
    /\ \E tag_rule \in call.lifted_tag_rules :
          tag_rule.index = None /\ tag_rule \notin call.outcome.value
    /\ impliable_signatures # function_signatures

\* C5: the unary expander returns one UnaryRule per candidate whose return
\* type is a subtype of the sole argument type, the binary expander one
\* BinaryRule per ordered pair of candidates (self-pairs included) whose
\* return types are subtypes of the two argument types, and nothing else.
C5_ExpandersEmitExactlyAdmissible ==
    Answered("get_possible_rules") /\ call.outcome.error = "none" =>
        LET list == call.outcome.value
            C == CandidatesOfCall
            arg == arg_types(call.parent_signature)
            S == {c \in C : issubtype(return_type(c.signature), arg[1])}
            P == {pair \in C \X C :
                     /\ issubtype(return_type(pair[1].signature), arg[1])
                     /\ issubtype(return_type(pair[2].signature), arg[2])}
        IN CASE kind = "unary" ->
                   /\ Len(list) = Cardinality(S)
                   /\ Range(list) =
                         {UnaryRule(call.tags, call.parent_index, call.parent_signature,
                                    c.index, c.signature) : c \in S}
             [] kind = "binary" ->
                   /\ Len(list) = Cardinality(P)
                   /\ Range(list) =
                         {BinaryRule(call.tags, call.parent_index, call.parent_signature,
                                     pair[1].index, pair[1].signature,
                                     pair[2].index, pair[2].signature) : pair \in P}
             [] OTHER -> list = <<>>

\* The binary expander returned a self-pair while some candidate of the
\* slot fits neither argument.
C5_Witness ==
    /\ Answered("get_possible_rules")
    /\ kind = "binary"
    /\ call.outcome.error = "none"
    /\ \E rule \in Range(call.outcome.value) :
          rule.a_index = rule.b_index /\ rule.a_signature = rule.b_signature
    /\ \E c \in CandidatesOfCall :
          ~issubtype(return_type(c.signature), arg_types(call.parent_signature)[1])

\* The candidate rules of the slot of the answered get_log_prob query.
SlotRulesOfCall ==
    Range(get_possible_rules(kind, call.tags, call.parent_index, call.parent_signature,
                             call.excluding_indices, call.lifted_tag_rules,
                             impliable_signatures, localities).value)

\* C6: get_log_prob returns the sentinel -9999 if and only if the queried
\* rule is not among the candidate rules generated for its slot.
C6_SentinelIffAbsent ==
    Answered("get_log_prob") /\ call.outcome.error = "none" =>
        (call.outcome.value = Sentinel <=> call.rule \notin SlotRulesOfCall)


InFit == pc \in {"fit_denom", "fit_index", "fit_minimize", "fit_returned", "fit_raised"}

\* The candidate lists of the batch have been built (line 32 was reached).
DenomsBuilt == InFit /\ Len(fit.denom_rules_list) = Len(fit.rules)

\* C7: when an observed rule of the batch is not in its candidate list, fit
\* raises before the optimizer runs and the weights are those of before the
\* call; the optimizer only ever runs with every observed rule located at
\* its own position in its list.
C7_MissingObservedRuleIsFatal ==
    /\ DenomsBuilt /\ pc # "fit_index"
          /\ (\E i \in 1 .. Len(fit.rules) :
                 fit.rules[i] \notin Range(fit.denom_rules_list[i]))
          => /\ pc = "fit_raised"
             /\ fit.error = "ValueError"
    /\ pc = "fit_raised" => ~fit.minimized /\ weights = fit.weights_before
    /\ InFit /\ (pc = "fit_minimize" \/ fit.minimized) =>
          \A i \in 1 .. Len(fit.rules) :
              /\ fit.num_index_list[i] \in 0 .. (Len(fit.denom_rules_list[i]) - 1)
              /\ fit.denom_rules_list[i][fit.num_index_list[i] + 1] = fit.rules[i]

\* fit raised at line 32 on a batch whose first rule is in its candidate
\* list and whose second rule is not.
C7_Witness ==
    /\ pc = "fit_raised"
    /\ fit.error = "ValueError"
    /\ Len(fit.rules) = 2
    /\ fit.rules[1] \in Range(fit.denom_rules_list[1])
    /\ fit.rules[2] \notin Range(fit.denom_rules_list[2])

\* The slots of a rule, each an index and a signature.
SlotsOf(rule) ==
    IF rule.type = "unary"
    THEN {<<rule.parent_index, rule.parent_signature>>,
          <<rule.child_index, rule.child_signature>>}
    ELSE {<<rule.parent_index, rule.parent_signature>>,
          <<rule.a_index, rule.a_signature>>,
          <<rule.b_index, rule.b_signature>>}

\* The signatures of the slots of a batch whose index is None.
UnanchoredSignatures(rules) ==
    {signature \in Signatures :
        \E i \in 1 .. Len(rules) : <<None, signature>> \in SlotsOf(rules[i])}

\* C8: no step removes an element of the impliable-signature set; the step
\* that enters fit sets it to the previous set united with the signatures
\* of the batch's slots whose index is None, and no other step changes it.
C8_ImpliableGrowsByUnanchoredSlots ==
    [][/\ impliable_signatures \subseteq impliable_signatures'
       /\ IF pc = "idle" /\ pc' = "fit_denom"
          THEN impliable_signatures' =
                   impliable_signatures \cup UnanchoredSignatures(fit'.rules)
          ELSE impliable_signatures' = impliable_signatures]_vars

\* fit has grown a set that was not empty, and the batch has an anchored
\* slot whose signature stayed out of it.
C8_Witness ==
    /\ pc = "fit_denom"
    /\ fit.impliable_before # {}
    /\ impliable_signatures # fit.impliable_before
    /\ \E i \in 1 .. Len(fit.rules) : \E slot \in SlotsOf(fit.rules[i]) :
          slot[1] # None /\ slot[2] \notin impliable_signatures

\* The answered query asked again in the state and with the argument
\* objects it left behind.
Requery ==
    CASE call.op = "get_next_tag_rules" ->
            Returned(get_next_tag_rules(call.tags, call.parent_index, call.excluding_after,
                                        call.lifted_after, impliable_signatures, localities))
      [] call.op = "get_possible_rules" ->
            get_possible_rules(kind, call.tags, call.parent_index, call.parent_signature,
                               call.excluding_after, call.lifted_after,
                               impliable_signatures, localities)
      [] call.op = "get_log_distribution" ->
            get_log_distribution(kind, weights, call.tags, call.parent_index,
                                 call.parent_signature, call.excluding_after,
                                 call.lifted_after, impliable_signatures, localities)
      [] call.op = "get_log_prob" ->
            get_log_prob(kind, weights, call.rule, call.excluding_after, call.lifted_after,
                         impliable_signatures, localities)

C10_ImpliableUpdatedBeforeCandidates ==
    /\ InFit => impliable_signatures =
                    fit.impliable_before \cup UnanchoredSignatures(fit.rules)
    /\ DenomsBuilt =>
          /\ \A i \in 1 .. Len(fit.rules) :
                fit.denom_rules_list[i] =
                    get_possible_rules(kind, fit.rules[i].tags, fit.rules[i].parent_index,
                                       fit.rules[i].parent_signature, {},
                                       semantic_rule_to_tag_rules(fit.rules[i]),
                                       fit.impliable_before
                                           \cup UnanchoredSignatures(fit.rules),
                                       localities).value
          /\ \A i, j \in 1 .. Len(fit.rules) :
                fit.rules[i] = fit.rules[j] =>
                    fit.denom_rules_list[i] = fit.denom_rules_list[j]

\* fit raised after the lists were built, and the list of the first rule
\* holds an unanchored candidate whose signature only the second rule
\* contributed.
C10_Witness ==
    /\ pc = "fit_raised"
    /\ fit.error = "ValueError"
    /\ Len(fit.rules) = 2
    /\ \E rule \in Range(fit.denom_rules_list[1]) :
          \E slot \in SlotsOf(rule) :
              /\ slot[1] = None
              /\ slot[2] \notin fit.impliable_before
              /\ slot[2] \notin UnanchoredSignatures(<<fit.rules[1]>>)

====
